---- MODULE Spec2Model ----
(***************************************************************************)
(* Repair-estimator service (src/app.py): the mtime-keyed file caches of   *)
(* the two JSON catalogs, the catalog lookups, the pricing formula of      *)
(* POST /estimate, and the models API with its per-make TTL cache.         *)
(*                                                                         *)
(* Conventions.  A Python str is a sequence of one-character strings, so   *)
(* that strip(), upper(), slicing, isdigit() and startswith() are computed *)
(* and not assumed.  A Python dict is a TLA+ record; a key is present iff  *)
(* it is in the record's DOMAIN.  Money and hours are exact decimals kept  *)
(* as scaled integers: hours in hundredths, rates in whole dollars, labor  *)
(* and parts in cents, multipliers in hundredths, and the subtotal in      *)
(* units of 10^-6 dollar (cents x hundredths x hundredths).                *)
(***************************************************************************)
EXTENDS Integers, Sequences, FiniteSets, TLC

VARIABLES
    svc_file,           \* services_catalog.json on disk: [exists, content, mtime]
    services_cache,     \* global _services_cache (None or the parsed document)
    services_mtime,     \* global _services_mtime (NoMtime or a float mtime)
    mm_file,            \* make_models.json on disk: [exists, content, mtime]
    make_models_cache,  \* global _make_models_cache
    make_models_mtime,  \* global _make_models_mtime
    fs_clock,           \* the file system's clock: the mtime the next write gets
    phase,              \* "init" before the startup event, then "serving" or "failed"
    reload_failed,      \* history: the last read of the services catalog by a
                        \* call that had a cached document raised
    req,                \* the request being answered (None when idle)
    resp,               \* its response (None when idle)
    threads,            \* per pool thread: where it is in load_services_catalog,
                        \* its locals mtime and data, and what it returned
    models_cache,       \* global _models_cache: make_upper -> (expires, models)
    now,                \* time.time(), in seconds
    calls,              \* per coroutine: where it is in fetch_models_from_vpic,
                        \* its make_upper, the requests it sent, what it returned
    fetched             \* history: make_upper -> the last list fetched for it
                        \* and the time it was stored

\* The state of the models API.
vpic == << models_cache, now, calls, fetched >>

vars == << svc_file, services_cache, services_mtime, mm_file,
           make_models_cache, make_models_mtime, fs_clock, phase,
           reload_failed, req, resp, threads, vpic >>

----------------------------------------------------------------------------
(* Python values *)

\* Python's None.
None == [py_none |-> TRUE]

\* The initial value of a cached mtime (None): equal to no mtime of a file.
NoMtime == 0

\* dict.get(k, default)
Get(d, k, default) == IF k \in DOMAIN d THEN d[k] ELSE default

\* bool(x) of a number
Truthy(n) == n # 0

----------------------------------------------------------------------------
(* Python str as a sequence of characters *)

Whitespace == {" "}
Digits == {"0", "1", "5", "9"}

RECURSIVE LStrip(_)
LStrip(s) ==
    IF s # << >> /\ Head(s) \in Whitespace THEN LStrip(Tail(s)) ELSE s

RECURSIVE RStrip(_)
RStrip(s) ==
    IF s # << >> /\ s[Len(s)] \in Whitespace
    THEN RStrip(SubSeq(s, 1, Len(s) - 1))
    ELSE s

\* str.strip()
Strip(s) == RStrip(LStrip(s))

\* s[:n]
Prefix(s, n) == SubSeq(s, 1, IF Len(s) < n THEN Len(s) ELSE n)

\* str.isdigit(): non-empty and every character a digit
IsDigit(s) == s # << >> /\ \A i \in 1..Len(s) : s[i] \in Digits

\* str.startswith(c) for a one-character prefix
StartsWith(s, c) == s # << >> /\ Head(s) = c

UpperChar(c) ==
    CASE c = "c" -> "C"
      [] c = "d" -> "D"
      [] c = "f" -> "F"
      [] c = "i" -> "I"
      [] c = "o" -> "O"
      [] c = "r" -> "R"
      [] c = "v" -> "V"
      [] OTHER -> c

\* str.upper()
Upper(s) == [i \in 1..Len(s) |-> UpperChar(s[i])]

----------------------------------------------------------------------------
(* The contents a catalog file can have.  A file's text is kept as the     *)
(* value json.loads gives for it: json_ok is FALSE for text that does not  *)
(* parse; is_dict tells a JSON object from any other JSON value; a JSON    *)
(* array is [is_list |-> TRUE, items |-> <<...>>].                         *)

JList(items) == [is_list |-> TRUE, items |-> items]
JScalar == [is_list |-> FALSE, items |-> << >>]
JObject(obj) == [json_ok |-> TRUE, is_dict |-> TRUE, obj |-> obj]

InvalidJson == [json_ok |-> FALSE, is_dict |-> FALSE, obj |-> << >>]
NotDict == [json_ok |-> TRUE, is_dict |-> FALSE, obj |-> << >>]

\* Service codes and category keys used by the catalogs and the requests.
CodeFP == << "f", "p" >>
CodeX == << "x" >>
CodeN == << "n" >>
CodeZZ == << "z", "z" >>
KeyB == << "b" >>
KeyE == << "e" >>
KeyZ == << "z" >>

SvcFrontPads ==
    [code |-> CodeFP, name |-> << "F", "P" >>,
     labor_hours_min |-> 100, labor_hours_max |-> 150]
SvcBrakesX ==
    [code |-> CodeX, name |-> << "B", "X" >>,
     labor_hours_min |-> 200, labor_hours_max |-> 300]
SvcEngineX ==
    [code |-> CodeX, name |-> << "E", "X" >>,
     labor_hours_min |-> 400, labor_hours_max |-> 600]
SvcNoHours == [code |-> CodeN, name |-> << " ", "N" >>]
SvcMaxOnly == [code |-> CodeFP, name |-> << "F", "P" >>, labor_hours_max |-> 200]
SvcMinAboveMax ==
    [code |-> CodeX, labor_hours_min |-> 300, labor_hours_max |-> 100]

\* Two categories sharing the service code "x"; a service without hours.
DocA ==
    JObject([categories |-> JList(<<
                 [key |-> KeyB, name |-> << "B" >>,
                  services |-> << SvcFrontPads, SvcBrakesX >>],
                 [key |-> KeyE, name |-> << "E" >>,
                  services |-> << SvcEngineX, SvcNoHours >>] >>),
             default_labor_rate |-> 120])
\* A falsy default_labor_rate beside a labor_rate; a category without services.
DocB ==
    JObject([categories |-> JList(<<
                 [key |-> KeyB, services |-> << SvcMaxOnly, SvcMinAboveMax >>],
                 [key |-> KeyE] >>),
             default_labor_rate |-> 0, labor_rate |-> 100])
\* No catalog-wide rate at all.
DocC ==
    JObject([categories |-> JList(<<
                 [key |-> KeyE, name |-> << "E" >>,
                  services |-> << SvcNoHours, SvcEngineX >>] >>)])
DocEmpty == JObject([categories |-> JList(<< >>)])
NoCategories == JObject([labor_rate |-> 100])
CategoriesNotList == JObject([categories |-> JScalar])

GoodServicesContents == {DocA, DocB, DocC, DocEmpty}
BadServicesContents == {InvalidJson, NotDict, NoCategories, CategoriesNotList}
ServicesContents == GoodServicesContents \cup BadServicesContents

\* Vehicle makes and models.
Ford == << "f", "o", "r", "d" >>
FORD == << "F", "O", "R", "D" >>
KIA == << "K", "I", "A" >>
F150 == << "F", "-", "1", "5", "0" >>
Civic == << "C", "i", "v", "i", "c" >>
Blank == << " " >>

\* make_models.json: a dict as the sequence of its (key, value) items.
MMGood ==
    [json_ok |-> TRUE, is_dict |-> TRUE,
     obj |-> << << << " " >> \o Ford,
                   JList(<< F150 \o << " " >>, Blank, Upper(Civic) >>) >>,
                << << "H" >>, JScalar >> >>]
MMEmpty == [json_ok |-> TRUE, is_dict |-> TRUE, obj |-> << >>]

MakeModelsContents == {MMGood, MMEmpty, InvalidJson, NotDict}

\* A file that exists with the given content and mtime, and a missing file.
File(c, m) == [exists |-> TRUE, content |-> c, mtime |-> m]
Missing == [exists |-> FALSE, content |-> InvalidJson, mtime |-> NoMtime]

----------------------------------------------------------------------------
(* Results.  A call either returns a value or raises HTTPException(status, *)
(* detail); reads counts the _read_json calls it made, and g is the pair   *)
(* of globals (cache, mtime) it leaves behind.                             *)

Globals(cache, mtime) == [cache |-> cache, mtime |-> mtime]

Returned(g, value, reads) ==
    [ok |-> TRUE, status |-> 200, detail |-> "", value |-> value,
     g |-> g, reads |-> reads]

Raised(g, status, detail, reads) ==
    [ok |-> FALSE, status |-> status, detail |-> detail, value |-> None,
     g |-> g, reads |-> reads]

\* _read_json: json.loads of the file's text; any exception becomes a 500.
ReadJson(f) ==
    IF f.exists /\ f.content.json_ok
    THEN [ok |-> TRUE, data |-> f.content]
    ELSE [ok |-> FALSE, data |-> InvalidJson]

\* The test `cache is not None and cached_mtime == mtime` of both loaders.
CacheFreshIgnoringMtime(g, mtime) == g.cache # None

CacheFresh(g, mtime) == g.cache # None /\ g.mtime = mtime

\* The validation of the parsed services catalog.
HasCategoriesList(data) ==
    /\ data.is_dict
    /\ "categories" \in DOMAIN data.obj
    /\ data.obj.categories.is_list

\* load_services_catalog
LoadServicesCatalog(f, g) ==
    IF ~f.exists
    THEN Raised(g, 500, "Missing services_catalog.json at project root.", 0)
    ELSE IF CacheFresh(g, f.mtime)
    THEN Returned(g, g.cache, 0)
    ELSE LET r == ReadJson(f) IN
         IF ~r.ok
         THEN Raised(g, 500, "Invalid JSON in services_catalog.json", 1)
         ELSE IF ~r.data.is_dict
         THEN Raised(g, 500, "services_catalog.json must be a JSON object.", 1)
         ELSE IF ~HasCategoriesList(r.data)
         THEN Raised(g, 500,
                     "services_catalog.json must include: { categories: [...] }", 1)
         ELSE Returned(Globals(r.data.obj, f.mtime), r.data.obj, 1)

\* str(k).strip().upper() of a make
NormMake(k) == Upper(Strip(k))

\* [str(m).strip() for m in v if str(m).strip()]
RECURSIVE StripNonEmpty(_)
StripNonEmpty(v) ==
    IF v = << >> THEN << >>
    ELSE IF Strip(Head(v)) # << >>
    THEN << Strip(Head(v)) >> \o StripNonEmpty(Tail(v))
    ELSE StripNonEmpty(Tail(v))

\* The normalized dict of load_make_models: a later item overwrites an
\* earlier one with the same normalized make.
NormalizeMakeModels(items) ==
    LET last(mk) ==
            CHOOSE i \in 1..Len(items) :
                /\ NormMake(items[i][1]) = mk
                /\ \A j \in (i + 1)..Len(items) : NormMake(items[j][1]) # mk
    IN  [mk \in {NormMake(items[i][1]) : i \in 1..Len(items)} |->
            IF items[last(mk)][2].is_list
            THEN StripNonEmpty(items[last(mk)][2].items)
            ELSE << >>]

\* load_make_models
LoadMakeModels(f, g) ==
    IF ~f.exists
    THEN Raised(g, 500, "Missing make_models.json at project root.", 0)
    ELSE IF CacheFresh(g, f.mtime)
    THEN Returned(g, g.cache, 0)
    ELSE LET r == ReadJson(f) IN
         IF ~r.ok
         THEN Raised(g, 500, "Invalid JSON in make_models.json", 1)
         ELSE IF ~r.data.is_dict
         THEN Raised(g, 500, "make_models.json must be an object", 1)
         ELSE LET normalized == [dict |-> NormalizeMakeModels(r.data.obj)] IN
              Returned(Globals(normalized, f.mtime), normalized, 1)

----------------------------------------------------------------------------
(* Catalog lookups on a loaded catalog `cat` (the parsed document).        *)

\* `x or ""` of an Optional[str]: None is None, a str s is [v |-> s].
OrEmpty(x) == IF x = None THEN << >> ELSE x.v

\* The services of all categories, in the order the nested loops of
\* find_service_by_code visit them.
RECURSIVE ServicesInOrder(_)
ServicesInOrder(cats) ==
    IF cats = << >> THEN << >>
    ELSE Get(Head(cats), "services", << >>) \o ServicesInOrder(Tail(cats))

HasCode(s, code) == "code" \in DOMAIN s /\ s.code = code

\* The loops of find_service_by_code: the first service, over all categories,
\* whose code equals the stripped argument; None for an empty code or no match.
FindInCatalog(cat, service_code) ==
    LET code == Strip(OrEmpty(service_code))
        all == ServicesInOrder(cat.categories.items)
        hits == {i \in 1..Len(all) : HasCode(all[i], code)}
    IN  IF code = << >> \/ hits = {} THEN None
        ELSE all[CHOOSE i \in hits : \A j \in hits : i <= j]

\* find_service_by_code
FindServiceByCode(f, g, service_code) ==
    LET l == LoadServicesCatalog(f, g) IN
    IF ~l.ok THEN l
    ELSE Returned(l.g, FindInCatalog(l.value, service_code), l.reads)

\* cat.get("default_labor_rate") or cat.get("labor_rate") or 90
DefaultRateOf(cat) ==
    IF Truthy(Get(cat, "default_labor_rate", 0)) THEN cat.default_labor_rate
    ELSE IF Truthy(Get(cat, "labor_rate", 0)) THEN cat.labor_rate
    ELSE 90

\* default_labor_rate
DefaultLaborRate(f, g) ==
    LET l == LoadServicesCatalog(f, g) IN
    IF ~l.ok THEN l ELSE Returned(l.g, DefaultRateOf(l.value), l.reads)

\* get_categories
GetCategoriesBody(cat) ==
    [i \in 1..Len(cat.categories.items) |->
        [key |-> Get(cat.categories.items[i], "key", << >>),
         name |-> Get(cat.categories.items[i], "name", << >>)]]

GetCategories(f, g) ==
    LET l == LoadServicesCatalog(f, g) IN
    IF ~l.ok THEN l ELSE Returned(l.g, GetCategoriesBody(l.value), l.reads)

\* get_services
GetServices(f, g, category_key) ==
    LET l == LoadServicesCatalog(f, g) IN
    IF ~l.ok THEN l
    ELSE LET ck == Strip(OrEmpty(category_key))
             cats == l.value.categories.items
             hits == {i \in 1..Len(cats) :
                         "key" \in DOMAIN cats[i] /\ cats[i].key = ck}
         IN  IF hits = {}
             THEN Raised(l.g, 404, "Category not found", l.reads)
             ELSE Returned(l.g,
                           [services |->
                               Get(cats[CHOOSE i \in hits : \A j \in hits : i <= j],
                                   "services", << >>)],
                           l.reads)

\* get_service
GetService(f, g, service_code) ==
    LET s == FindServiceByCode(f, g, service_code) IN
    IF ~s.ok THEN s
    ELSE IF s.value = None THEN Raised(s.g, 404, "Service not found", s.reads)
    ELSE s

----------------------------------------------------------------------------
(* Pricing *)

\* zip_multiplier, in hundredths; zip_code is an Optional[str].
ZipMultiplierNoLengthCheck(zip_code) ==
    LET z == Prefix(Strip(OrEmpty(zip_code)), 5) IN
    IF IsDigit(z)
    THEN IF StartsWith(z, "9") THEN 110
         ELSE IF StartsWith(z, "0") \/ StartsWith(z, "1") THEN 108
         ELSE 100
    ELSE 100

ZipMultiplier(zip_code) ==
    LET z == Prefix(Strip(OrEmpty(zip_code)), 5) IN
    IF Len(z) = 5 /\ IsDigit(z)
    THEN IF StartsWith(z, "9") THEN 110
         ELSE IF StartsWith(z, "0") \/ StartsWith(z, "1") THEN 108
         ELSE 100
    ELSE 100

\* year_multiplier, in hundredths
YearMultiplier(year) ==
    IF year <= 2005 THEN 108
    ELSE IF year >= 2020 THEN 105
    ELSE 100

\* One dollar in the unit of the subtotal: cents x hundredths x hundredths.
SubtotalUnit == 100 * 100 * 100

\* int(round(x)) of x = n / unit for n >= 0: Python rounds a half to even.
RoundHalfEven(n, unit) ==
    LET q == n \div unit
        r == n % unit
    IN  IF 2 * r > unit THEN q + 1
        ELSE IF 2 * r < unit THEN q
        ELSE IF q % 2 = 0 THEN q ELSE q + 1

\* The default labor hours of a resolved service: the midpoint of min and
\* max when mx > 0 and mx >= mn, else the initial 0.0 (estimate, 315-326).
HoursDefault(s) ==
    LET mn == Get(s, "labor_hours_min", 0)
        mx == Get(s, "labor_hours_max", 0)
    IN  IF mx > 0 /\ mx >= mn THEN (mn + mx) \div 2 ELSE 0

\* The arithmetic of estimate (332-356) once the service is determined.
Price(r, service_name, hours_default, default_rate) ==
    LET labor_rate == IF r.laborRate # None THEN r.laborRate.v ELSE default_rate
        labor_hours == IF r.laborHours > 0 THEN r.laborHours ELSE hours_default
        labor == labor_hours * labor_rate
        parts == r.partsPrice
        z == ZipMultiplier(IF OrEmpty(r.zip) # << >>
                           THEN r.zip
                           ELSE [v |-> << "0", "0", "0", "0", "0" >>])
        y == YearMultiplier(r.year)
        subtotal == (labor + parts) * z * y
    IN  [estimate |-> RoundHalfEven(subtotal, SubtotalUnit),
         service_name |-> service_name,
         labor_hours |-> labor_hours,
         labor_rate |-> labor_rate,
         labor |-> labor,
         parts |-> parts,
         zip_multiplier |-> z,
         year_multiplier |-> y,
         subtotal |-> subtotal]

\* The response of a handler: the globals of both caches after it, the HTTP
\* status, the error detail, the body, and the _read_json calls on the
\* services catalog.
Response(gm, gs, status, detail, body, reads) ==
    [gm |-> gm, gs |-> gs, status |-> status, detail |-> detail,
     body |-> body, reads |-> reads]

\* estimate, from the service on (313-356); gm is what load_make_models left.
EstimateService(fs, gm, gs, r) ==
    IF OrEmpty(r.serviceCode) # << >>
    THEN LET s == FindServiceByCode(fs, gs, r.serviceCode) IN
         IF ~s.ok
         THEN Response(gm, s.g, s.status, s.detail, None, s.reads)
         ELSE IF s.value = None
         THEN Response(gm, s.g, 400, "Invalid serviceCode", None, s.reads)
         ELSE IF r.laborRate # None
         THEN Response(gm, s.g, 200, "",
                       Price(r, Strip(Get(s.value, "name", << >>)),
                             HoursDefault(s.value), 0),
                       s.reads)
         ELSE LET d == DefaultLaborRate(fs, s.g) IN
              IF ~d.ok
              THEN Response(gm, d.g, d.status, d.detail, None, s.reads + d.reads)
              ELSE Response(gm, d.g, 200, "",
                            Price(r, Strip(Get(s.value, "name", << >>)),
                                  HoursDefault(s.value), d.value),
                            s.reads + d.reads)
    ELSE IF Strip(OrEmpty(r.service)) = << >>
    THEN Response(gm, gs, 400, "Select a service", None, 0)
    ELSE IF r.laborRate # None
    THEN Response(gm, gs, 200, "", Price(r, Strip(OrEmpty(r.service)), 0, 0), 0)
    ELSE LET d == DefaultLaborRate(fs, gs) IN
         IF ~d.ok
         THEN Response(gm, d.g, d.status, d.detail, None, d.reads)
         ELSE Response(gm, d.g, 200, "",
                       Price(r, Strip(OrEmpty(r.service)), 0, d.value), d.reads)

\* estimate
Estimate(fm, fs, gm, gs, r) ==
    LET mm == LoadMakeModels(fm, gm) IN
    IF ~mm.ok
    THEN Response(mm.g, gs, mm.status, mm.detail, None, 0)
    ELSE LET make_key == Upper(Strip(r.make))
             model == Strip(r.model)
         IN  IF make_key \notin DOMAIN mm.value.dict
             THEN Response(mm.g, gs, 400, "Invalid make", None, 0)
             ELSE IF model = << >>
             THEN Response(mm.g, gs, 400, "Model is required", None, 0)
             ELSE IF \A i \in 1..Len(mm.value.dict[make_key]) :
                         Upper(mm.value.dict[make_key][i]) # Upper(model)
             THEN Response(mm.g, gs, 400, "Invalid model for selected make",
                           None, 0)
             ELSE EstimateService(fs, mm.g, gs, r)

----------------------------------------------------------------------------
(* The models API: fetch_models_from_vpic and its per-make cache.          *)
(* _models_cache is a dict from make_upper to (expires, models), here a    *)
(* function from the keys present to [expires, models].  A list returned   *)
(* by a call is [v |-> list]; a miss of _cache_get is None.                *)

\* MODELS_TTL_SECONDS
MODELS_TTL_SECONDS == 60 * 60 * 24

\* A loop of one iteration more.
ThreeAttempts == 1 + 1 + 1

\* The iterations of `for _ in range(2)`.
MaxAttempts == 2

\* The dict {}.
EmptyDict == [k \in {} |-> None]

\* dict.pop(key, None)
Pop(d, key) == [k \in DOMAIN d \ {key} |-> d[k]]

\* d[key] = value
Put(d, key, value) == [k \in DOMAIN d \cup {key} |-> IF k = key THEN value ELSE d[k]]

\* An entry taken as expired from its expiry time on.
ExpiredFromExpiry(t, expires) == t >= expires

\* The test `time.time() > expires` of _cache_get.
Expired(t, expires) == t > expires

\* _cache_get at time t: the value it returns and the dict it leaves.
CacheGet(cache, make_upper, t) ==
    IF make_upper \notin DOMAIN cache
    THEN [value |-> None, cache |-> cache]
    ELSE IF Expired(t, cache[make_upper].expires)
    THEN [value |-> None, cache |-> Pop(cache, make_upper)]
    ELSE [value |-> [v |-> cache[make_upper].models], cache |-> cache]

\* _cache_set at time t
CacheSet(cache, make_upper, models, t) ==
    Put(cache, make_upper,
        [expires |-> t + MODELS_TTL_SECONDS, models |-> models])

\* The characters of the model names, in code point order.
CodePoints ==
    << " ", "-", "0", "1", "5", "A", "C", "F", "I", "V", "Z", "c", "i", "v" >>

\* ord(c)
Ord(c) == CHOOSE i \in 1..Len(CodePoints) : CodePoints[i] = c

\* a < b for two str: the first differing character decides, a proper prefix
\* is smaller.
StrLess(a, b) ==
    \E k \in 1..(Len(b)) :
        /\ \A i \in 1..(k - 1) : i <= Len(a) /\ a[i] = b[i]
        /\ \/ k = Len(a) + 1
           \/ k <= Len(a) /\ Ord(a[k]) < Ord(b[k])

\* The loop over results (573-581): the stripped non-empty Model_Name of each
\* item, the first of each upper-cased key only.
RECURSIVE CollectModels(_, _)
CollectModels(results, seen) ==
    IF results = << >> THEN << >>
    ELSE LET name == Strip(OrEmpty(Get(Head(results), "Model_Name", None)))
         IN  IF name = << >> \/ Upper(name) \in seen
             THEN CollectModels(Tail(results), seen)
             ELSE << name >> \o CollectModels(Tail(results),
                                              seen \cup {Upper(name)})

\* models.sort(key=lambda s: s.upper()): a stable sort, by insertion from the
\* right so that equal keys keep their order.
RECURSIVE SortByUpper(_)
SortByUpper(models) ==
    IF models = << >> THEN << >>
    ELSE LET rest == SortByUpper(Tail(models))
             before == {i \in 1..Len(rest) :
                           StrLess(Upper(rest[i]), Upper(Head(models)))}
         IN  SubSeq(rest, 1, Cardinality(before)) \o << Head(models) >> \o
             SubSeq(rest, Cardinality(before) + 1, Len(rest))

\* What one upstream request ends in: an exception of the client (no
\* connection, a timeout, an error status, a body that is no JSON), or the
\* parsed body.
UpstreamOutcome(raises, data) == [raises |-> raises, data |-> data]

Unavailable == UpstreamOutcome(TRUE, InvalidJson)

\* An item of "Results"; name is None or [v |-> str].
ModelItem(name) == [Model_Name |-> name]

civic == << "c", "i", "v", "i", "c" >>

\* Names to strip, a name twice up to case, items without a name; out of
\* key order.
ResultsA ==
    << ModelItem([v |-> F150 \o << " " >>]), ModelItem([v |-> civic]),
       ModelItem(None), ModelItem([v |-> Upper(civic)]), [Make_Name |-> FORD],
       ModelItem([v |-> Blank]) >>
\* An item that is no dict: item.get raises AttributeError.
ResultsBadItem == << ModelItem([v |-> Civic]), JScalar >>

UpstreamOutcomes ==
    {Unavailable,
     UpstreamOutcome(FALSE, NotDict),
     UpstreamOutcome(FALSE, JObject([Count |-> 0])),
     UpstreamOutcome(FALSE, JObject([Results |-> ResultsA])),
     UpstreamOutcome(FALSE, JObject([Results |-> ResultsBadItem]))}

IsItemDict(item) == "is_list" \notin DOMAIN item

\* The body of the try (564-583) for one outcome of the request: the list
\* `models` as [v |-> list], or None when an exception is caught on line 587.
AttemptModels(out) ==
    IF out.raises THEN None
    ELSE LET results == IF out.data.is_dict
                        THEN Get(out.data.obj, "Results", << >>)
                        ELSE << >>
         IN  IF \E i \in 1..Len(results) : ~IsItemDict(results[i])
             THEN None
             ELSE [v |-> SortByUpper(CollectModels(results, {}))]

\* The coroutines that run fetch_models_from_vpic on the event loop.
Coroutines == {"c1", "c2"}

\* A coroutine's call: its argument, make_upper, the upstream requests it has
\* sent, how many of them failed and what the last one ended in, what the
\* call returned; and as history the time it began and the entry of `fetched`
\* for its make at that time.
Call(pc, make, make_upper, requests, failed, out, ret, began, seen) ==
    [pc |-> pc, make |-> make, make_upper |-> make_upper, requests |-> requests,
     failed |-> failed, out |-> out, ret |-> ret, began |-> began, seen |-> seen]

IdleCall == Call("idle", None, << >>, 0, 0, None, None, 0, None)

VpicIdle ==
    /\ models_cache = EmptyDict
    /\ now = 0
    /\ calls = [c \in Coroutines |-> IdleCall]
    /\ fetched = EmptyDict

----------------------------------------------------------------------------
(* The sequential system: the startup event, then one request at a time,   *)
(* with the services catalog file rewritten or deleted between requests.   *)
(* A handler runs as one step; its response stays in resp, with the        *)
(* request and the globals it started from in req, until Respond.          *)

\* How many times the catalog file is written or deleted after startup.
MaxWrites == 3

\* The mtime the catalog files have when the process starts.
FirstMtime == NoMtime + 1

\* The threads of the pool that runs the synchronous endpoints.
NumThreads == 2

Threads == 1..NumThreads

IdleThread == [pc |-> "idle", mtime |-> NoMtime, data |-> None, ret |-> None]

ServicesLoadErrors ==
    {"Missing services_catalog.json at project root.",
     "Invalid JSON in services_catalog.json",
     "services_catalog.json must be a JSON object.",
     "services_catalog.json must include: { categories: [...] }"}

\* The request being answered, with the history a claim about it needs.
Request(op, arg) ==
    [op |-> op, arg |-> arg,
     gs |-> Globals(services_cache, services_mtime),
     gm |-> Globals(make_models_cache, make_models_mtime),
     reload_failed |-> reload_failed]

\* The history flag after a call that ended with `status`, `detail` and made
\* `reads` reads of the services catalog.
ReloadFailedAfter(status, detail, reads) ==
    IF status = 500 /\ detail \in ServicesLoadErrors
    THEN services_cache # None
    ELSE IF reads > 0 THEN FALSE ELSE reload_failed

\* A call of a function of the services catalog: r is its result.
ServicesCall(op, arg, r) ==
    /\ phase = "serving"
    /\ req = None
    /\ req' = Request(op, arg)
    /\ resp' = r
    /\ services_cache' = r.g.cache
    /\ services_mtime' = r.g.mtime
    /\ reload_failed' = ReloadFailedAfter(r.status, r.detail, r.reads)
    /\ UNCHANGED << svc_file, mm_file, make_models_cache, make_models_mtime,
                    fs_clock, phase,
                    threads, vpic >>

Init ==
    /\ svc_file \in {File(c, FirstMtime) : c \in ServicesContents} \cup {Missing}
    /\ mm_file \in {File(c, FirstMtime) : c \in MakeModelsContents} \cup {Missing}
    /\ services_cache = None
    /\ services_mtime = NoMtime
    /\ make_models_cache = None
    /\ make_models_mtime = NoMtime
    /\ fs_clock = FirstMtime + 1
    /\ phase = "init"
    /\ reload_failed = FALSE
    /\ req = None
    /\ resp = None
    /\ threads = [t \in Threads |-> IdleThread]
    /\ VpicIdle

\* _startup_checks: both catalogs must load, or the application does not
\* start.  (The static directory and index.html are taken to be present.)
Startup ==
    /\ phase = "init"
    /\ req = None
    /\ LET mm == LoadMakeModels(mm_file,
                                Globals(make_models_cache, make_models_mtime))
           sv == LoadServicesCatalog(svc_file,
                                     Globals(services_cache, services_mtime))
       IN  /\ req' = Request("startup", None)
           /\ make_models_cache' = mm.g.cache
           /\ make_models_mtime' = mm.g.mtime
           /\ IF mm.ok
              THEN /\ resp' = sv
                   /\ services_cache' = sv.g.cache
                   /\ services_mtime' = sv.g.mtime
                   /\ phase' = IF sv.ok THEN "serving" ELSE "failed"
              ELSE /\ resp' = mm
                   /\ phase' = "failed"
                   /\ UNCHANGED << services_cache, services_mtime >>
    /\ UNCHANGED << svc_file, mm_file, fs_clock, reload_failed,
                    threads, vpic >>

\* The catalog file is rewritten: new content, a later mtime.
WriteServicesFile(c) ==
    /\ phase = "serving"
    /\ req = None
    /\ fs_clock <= FirstMtime + MaxWrites
    /\ svc_file' = File(c, fs_clock)
    /\ fs_clock' = fs_clock + 1
    /\ UNCHANGED << services_cache, services_mtime, mm_file, make_models_cache,
                    make_models_mtime, phase, reload_failed, req, resp,
                    threads, vpic >>

\* The catalog file is deleted.
DeleteServicesFile ==
    /\ phase = "serving"
    /\ req = None
    /\ svc_file.exists
    /\ fs_clock <= FirstMtime + MaxWrites
    /\ svc_file' = Missing
    /\ fs_clock' = fs_clock + 1
    /\ UNCHANGED << services_cache, services_mtime, mm_file, make_models_cache,
                    make_models_mtime, phase, reload_failed, req, resp,
                    threads, vpic >>

CallLoadServicesCatalog ==
    ServicesCall("load_services_catalog", None,
                 LoadServicesCatalog(svc_file,
                                     Globals(services_cache, services_mtime)))

CallGetCategories ==
    ServicesCall("get_categories", None,
                 GetCategories(svc_file, Globals(services_cache, services_mtime)))

CategoryKeyArgs == {[v |-> KeyB], [v |-> KeyE \o << " " >>], [v |-> KeyZ]}

CallGetServices ==
    \E k \in CategoryKeyArgs :
        ServicesCall("get_services", k,
                     GetServices(svc_file,
                                 Globals(services_cache, services_mtime), k))

ServiceCodeArgs ==
    {[v |-> CodeFP], [v |-> CodeX], [v |-> << " " >> \o CodeN], [v |-> CodeZZ],
     [v |-> Blank]}

CallGetService ==
    \E c \in ServiceCodeArgs :
        ServicesCall("get_service", c,
                     GetService(svc_file,
                                Globals(services_cache, services_mtime), c))

\* The response is sent; the next request can be taken.
Respond ==
    /\ req # None
    /\ phase # "failed"
    /\ req' = None
    /\ resp' = None
    /\ UNCHANGED << svc_file, services_cache, services_mtime, mm_file,
                    make_models_cache, make_models_mtime, fs_clock, phase,
                    reload_failed,
                    threads, vpic >>

Next ==
    \/ Startup
    \/ \E c \in ServicesContents : WriteServicesFile(c)
    \/ DeleteServicesFile
    \/ CallLoadServicesCatalog
    \/ CallGetCategories
    \/ CallGetServices
    \/ CallGetService
    \/ Respond

Spec == Init /\ [][Next]_vars

----------------------------------------------------------------------------
(* POST /estimate on a serving application.  The initial states are the    *)
(* states the startup event leaves for each good services catalog, with    *)
(* the catalog file as it was at startup or rewritten once since.          *)

Zip92646 == << "9", "2", "6", "4", "6" >>
Zip60601 == << "6", "0", "6", "0", "1" >>

\* The fields of an EstimateRequest the handler reads.  Hours are in
\* hundredths, partsPrice in cents, laborRate in dollars.
EstimateRequest(year, make, model, category, code, service, hours, parts, rate, zip) ==
    [year |-> year, make |-> make, model |-> model, category |-> category,
     serviceCode |-> code, service |-> service,
     laborHours |-> hours, partsPrice |-> parts,
     laborRate |-> rate, zip |-> zip]

Years == {2005, 2006, 2020, 2021}

\* Requests that differ in the vehicle only.
VehicleRequests ==
    {EstimateRequest(2010, mk, md, [v |-> KeyB], [v |-> CodeFP], None,
                     0, 0, None, [v |-> Zip60601]) :
        mk \in {Ford, KIA}, md \in {F150, Civic, Blank, << "Z" >>}}

\* Requests for a listed vehicle that differ in everything else.
PricingRequests ==
    {EstimateRequest(y, Ford, md, [v |-> k], c, sv, h, p, lr, z) :
        y \in Years, md \in {F150, Civic}, k \in {KeyB, KeyE, KeyZ},
        c \in {None, [v |-> CodeFP], [v |-> CodeX], [v |-> CodeN],
               [v |-> CodeZZ]},
        sv \in {None, [v |-> << "O" >>]},
        h \in {0, 200}, p \in {0, 4000},
        lr \in {None, [v |-> 0], [v |-> 90]},
        z \in {None, [v |-> Zip92646], [v |-> Zip60601]}}

EstimateRequests == VehicleRequests \cup PricingRequests

InitEstimate ==
    /\ \E c \in GoodServicesContents :
        LET sv == LoadServicesCatalog(File(c, FirstMtime), Globals(None, NoMtime))
        IN  /\ services_cache = sv.g.cache
            /\ services_mtime = sv.g.mtime
            /\ svc_file \in {File(c, FirstMtime)} \cup
                            (IF c = DocA
                             THEN {File(InvalidJson, FirstMtime + 1)}
                             ELSE {})
    /\ mm_file = File(MMGood, FirstMtime)
    /\ LET mm == LoadMakeModels(mm_file, Globals(None, NoMtime))
       IN  /\ make_models_cache = mm.g.cache
           /\ make_models_mtime = mm.g.mtime
    /\ fs_clock = FirstMtime + 2
    /\ phase = "serving"
    /\ reload_failed = FALSE
    /\ req = None
    /\ resp = None
    /\ threads = [t \in Threads |-> IdleThread]
    /\ VpicIdle

CallEstimate ==
    /\ phase = "serving"
    /\ req = None
    /\ \E r \in EstimateRequests :
        LET e == Estimate(mm_file, svc_file,
                          Globals(make_models_cache, make_models_mtime),
                          Globals(services_cache, services_mtime), r)
        IN  /\ req' = Request("estimate", r)
            /\ resp' = e
            /\ make_models_cache' = e.gm.cache
            /\ make_models_mtime' = e.gm.mtime
            /\ services_cache' = e.gs.cache
            /\ services_mtime' = e.gs.mtime
            /\ reload_failed' = ReloadFailedAfter(e.status, e.detail, e.reads)
    /\ UNCHANGED << svc_file, mm_file, fs_clock, phase,
                    threads, vpic >>

NextEstimate ==
    \/ CallEstimate
    \/ Respond

SpecEstimate == InitEstimate /\ [][NextEstimate]_vars

----------------------------------------------------------------------------
(* zip_multiplier as a function of its argument: every string over a small *)
(* alphabet (a first digit of each class, another digit, a letter, a       *)
(* blank) up to a length that lets strip() and [:5] both cut, and None.    *)

MaxZipLen == 6

ZipAlphabet == {"9", "0", "1", "5", "x", " "}

ZipInputs ==
    {None} \cup
    {[v |-> z] : z \in UNION {[1..n -> ZipAlphabet] : n \in 0..MaxZipLen}}

InitZip ==
    /\ svc_file = Missing
    /\ mm_file = Missing
    /\ services_cache = None
    /\ services_mtime = NoMtime
    /\ make_models_cache = None
    /\ make_models_mtime = NoMtime
    /\ fs_clock = FirstMtime
    /\ phase = "init"
    /\ reload_failed = FALSE
    /\ req \in {[op |-> "zip_multiplier", arg |-> z] : z \in ZipInputs}
    /\ resp = None
    /\ threads = [t \in Threads |-> IdleThread]
    /\ VpicIdle

CallZipMultiplier ==
    /\ req # None
    /\ req.op = "zip_multiplier"
    /\ resp = None
    /\ resp' = [value |-> ZipMultiplier(req.arg)]
    /\ UNCHANGED << svc_file, services_cache, services_mtime, mm_file,
                    make_models_cache, make_models_mtime, fs_clock, phase,
                    reload_failed, req,
                    threads, vpic >>

NextZip == CallZipMultiplier

SpecZip == InitZip /\ [][NextZip]_vars

----------------------------------------------------------------------------
(* Claims about the services catalog cache and the catalog lookups (Spec). *)

\* A call of load_services_catalog has just been answered: a direct call, or
\* the one the startup event makes once make_models.json has loaded.
LoadAnswered ==
    /\ req # None
    /\ \/ req.op = "load_services_catalog"
       \/ req.op = "startup" /\ make_models_cache # None

\* C1: a call of load_services_catalog reads the file only when nothing is
\* cached or the file's mtime differs from the recorded one; with the mtime
\* unchanged it returns the cached document, reads nothing and leaves the
\* globals alone; a successful call on a changed mtime returns the document
\* parsed from the file's current content and records that content and mtime.
C1_ReadOnlyWhenStale ==
    LoadAnswered =>
        LET stale == req.gs.cache = None \/ req.gs.mtime # svc_file.mtime IN
        /\ resp.reads \in {0, 1}
        /\ resp.reads = 1 => svc_file.exists /\ stale
        /\ (svc_file.exists /\ ~stale) =>
              /\ resp.reads = 0
              /\ resp.ok
              /\ resp.value = req.gs.cache
              /\ services_cache = req.gs.cache
              /\ services_mtime = req.gs.mtime
        /\ (svc_file.exists /\ stale /\ resp.ok) =>
              /\ resp.reads = 1
              /\ resp.value = svc_file.content.obj
              /\ services_cache = svc_file.content.obj
              /\ services_mtime = svc_file.mtime

\* C1's case: with a document cached, the file was rewritten with another
\* document, and the call re-read it and recorded the new mtime.
C1_Witness ==
    /\ req # None
    /\ req.op = "load_services_catalog"
    /\ req.gs.cache # None
    /\ req.gs.mtime # svc_file.mtime
    /\ resp.ok
    /\ resp.reads = 1
    /\ services_cache # req.gs.cache
    /\ services_mtime = svc_file.mtime

LookupOps ==
    {"load_services_catalog", "get_categories", "get_services", "get_service"}

\* C2: with a good document cached, a failed reload leaves the cached pair
\* as it was, and a lookup issued after a failed reload is answered (not a
\* 500 catalog-load failure).
C2_OldIndexServedAfterFailedReload ==
    (req # None /\ req.op \in LookupOps /\ req.gs.cache # None) =>
        /\ resp.status = 500 =>
              services_cache = req.gs.cache /\ services_mtime = req.gs.mtime
        /\ req.reload_failed => resp.status # 500

\* The part of C2 that the code keeps: a failed reload does not touch the
\* cached pair.
C2_FailedReloadKeepsCache ==
    (req # None /\ req.op \in LookupOps /\ ~resp.ok /\ resp.status = 500) =>
        services_cache = req.gs.cache /\ services_mtime = req.gs.mtime

\* The services of the loaded catalog that carry the code the lookup uses
\* for the argument `arg`, as (category index, service) pairs.
EntriesWithCode(cat, arg) ==
    {<< i, sv >> \in
        UNION {{<< i, Get(cat.categories.items[i], "services", << >>)[j] >> :
                   j \in 1..Len(Get(cat.categories.items[i], "services", << >>))} :
               i \in 1..Len(cat.categories.items)} :
        HasCode(sv, Strip(arg.v))}

\* C4: a service lookup answered from the loaded catalog returns, for each
\* category that holds a service with the requested code, that category's
\* entry, and not-found (404) when no category holds the code.
C4_LookupReturnsEntryOfCategory ==
    (req # None /\ req.op = "get_service" /\ resp.status # 500) =>
        /\ \A e \in EntriesWithCode(services_cache, req.arg) :
              resp.ok /\ resp.value = e[2]
        /\ EntriesWithCode(services_cache, req.arg) = {} => resp.status = 404

\* C11: a load of a document whose list of categories is empty fails with a
\* catalog-load error (500), and the cached document, when there is one, has
\* at least one category.
C11_EmptyCatalogNeverInstalled ==
    /\ services_cache # None => Len(services_cache.categories.items) > 0
    /\ (/\ LoadAnswered
        /\ resp.reads = 1
        /\ svc_file.content.json_ok
        /\ HasCategoriesList(svc_file.content)
        /\ Len(svc_file.content.obj.categories.items) = 0) =>
           resp.status = 500 /\ resp.detail \in ServicesLoadErrors


----------------------------------------------------------------------------
(* Claims about POST /estimate (SpecEstimate). *)

EstimateAnswered == req # None /\ req.op = "estimate"

\* The catalog an estimate was answered from.
CatalogOf(r) == svc_file.content.obj

CategoryResolves(cat, key) ==
    \E i \in 1..Len(cat.categories.items) :
        /\ "key" \in DOMAIN cat.categories.items[i]
        /\ cat.categories.items[i].key = key.v

\* C5: an estimate request that selects a service by (category key, service
\* code), one of which does not resolve against the loaded catalog, gets a
\* 4xx error and no price.
C5_UnresolvedSelectionRejected ==
    (/\ EstimateAnswered
     /\ svc_file.content.json_ok
     /\ req.arg.serviceCode # None
     /\ \/ ~CategoryResolves(CatalogOf(req), req.arg.category)
        \/ FindInCatalog(CatalogOf(req), req.arg.serviceCode) = None) =>
        resp.status \in 400..499 /\ resp.body = None

\* The parts-price differences C6 is tried on, in cents.
PartsDeltas == {0, 1, 2500}

\* C6: the parts price passes through unmodified: raising partsPrice by d
\* raises the subtotal by exactly d (d cents are d * 10^4 subtotal units).
C6_PartsPassThrough ==
    (EstimateAnswered /\ resp.status = 200) =>
        \A d \in PartsDeltas :
            LET more == Estimate(mm_file, svc_file, req.gm, req.gs,
                                 [req.arg EXCEPT !.partsPrice = @ + d])
            IN  /\ more.status = 200
                /\ more.body.subtotal = resp.body.subtotal + d * 100 * 100

\* The body-type factor of the specification for the models of the requests:
\* "F-150" is a truck (1.20); "Civic" is neither truck, SUV nor van (1.00).
BodyFactor(model) == IF Upper(Strip(model)) = F150 THEN 120 ELSE 100

YearFactor(year) ==
    IF year <= 2005 THEN 108 ELSE IF year >= 2020 THEN 105 ELSE 100

\* C8: the vehicle multiplier estimate applies is yearFactor x bodyFactor
\* (multipliers in hundredths, so the product is in ten-thousandths).
C8_VehicleMultiplierIsYearTimesBody ==
    (EstimateAnswered /\ resp.status = 200) =>
        /\ resp.body.year_multiplier * 100 =
              YearFactor(req.arg.year) * BodyFactor(req.arg.model)
        /\ resp.body.subtotal * 100 =
              (resp.body.labor + resp.body.parts) * resp.body.zip_multiplier
                  * YearFactor(req.arg.year) * BodyFactor(req.arg.model)

\* C9: the labor rate is the request's laborRate when positive, else the
\* catalog-wide default rate when the catalog has one, else 90.
C9_LaborRateResolution ==
    (EstimateAnswered /\ resp.status = 200) =>
        resp.body.labor_rate =
            IF req.arg.laborRate # None /\ req.arg.laborRate.v > 0
            THEN req.arg.laborRate.v
            ELSE IF Get(CatalogOf(req), "default_labor_rate", 0) > 0
            THEN CatalogOf(req).default_labor_rate
            ELSE IF Get(CatalogOf(req), "labor_rate", 0) > 0
            THEN CatalogOf(req).labor_rate
            ELSE 90

\* C10: for a resolved service that carries neither labor_hours_min nor
\* labor_hours_max, no explicit laborHours and a positive labor rate, the
\* estimate has labor_hours = 1.0 and a strictly positive labor amount.
C10_HoursDefaultToOne ==
    (/\ EstimateAnswered
     /\ resp.status = 200
     /\ FindInCatalog(CatalogOf(req), req.arg.serviceCode) # None
     /\ "labor_hours_min" \notin
            DOMAIN FindInCatalog(CatalogOf(req), req.arg.serviceCode)
     /\ "labor_hours_max" \notin
            DOMAIN FindInCatalog(CatalogOf(req), req.arg.serviceCode)
     /\ req.arg.laborHours = 0
     /\ resp.body.labor_rate > 0) =>
        resp.body.labor_hours = 100 /\ resp.body.labor > 0

\* The details of the two rejections estimate makes against make_models.json.
VehicleRejections == {"Invalid make", "Invalid model for selected make"}

\* C12: make and model are advisory: a request with a non-empty make and
\* model is never rejected for a make or model that make_models.json does not
\* list, and is priced exactly as the same request for a listed vehicle.
C12_MakeModelAdvisory ==
    (/\ EstimateAnswered
     /\ Strip(req.arg.make) # << >>
     /\ Strip(req.arg.model) # << >>) =>
        LET listed == Estimate(mm_file, svc_file, req.gm, req.gs,
                               [req.arg EXCEPT !.make = Ford, !.model = F150])
        IN  /\ resp.detail \notin VehicleRejections
            /\ listed.status = 200 =>
                  resp.status = 200 /\ resp.body = listed.body


----------------------------------------------------------------------------
(* Claims about zip_multiplier (SpecZip). *)

ZipAnswered == req # None /\ req.op = "zip_multiplier" /\ resp # None

\* The positions at which a string holds a ZIP: five digits preceded by
\* blanks only.
ZipStarts(z) ==
    {k \in 1..(Len(z) - 4) :
        /\ \A i \in 1..(k - 1) : z[i] = " "
        /\ \A i \in k..(k + 4) : z[i] \in {"0", "1", "5", "9"}}

\* C7: zip_multiplier gives 1.10 for a ZIP whose first digit is 9, 1.08 for
\* one whose first digit is 0 or 1, and 1.00 for every other argument: a
\* missing value, the empty string, a short string, a string with a non-digit
\* among its first five characters.
C7_ZipMultiplierByFirstDigit ==
    ZipAnswered =>
        IF req.arg = None \/ ZipStarts(OrEmpty(req.arg)) = {}
        THEN resp.value = 100
        ELSE \A k \in ZipStarts(req.arg.v) :
                resp.value = CASE req.arg.v[k] = "9" -> 110
                               [] req.arg.v[k] \in {"0", "1"} -> 108
                               [] OTHER -> 100

\* C7's case: a ZIP+4-long argument with a leading blank and first digit 9.
C7_Witness ==
    /\ ZipAnswered
    /\ req.arg # None
    /\ Len(req.arg.v) > 5
    /\ Head(req.arg.v) = " "
    /\ resp.value = 110

----------------------------------------------------------------------------
(* Concurrent calls of load_services_catalog.  The synchronous endpoints   *)
(* run in a thread pool and the function takes no lock, so the calls of    *)
(* two requests interleave at every access to the file or to a global.     *)
(* A thread's pc names the access it makes next:                           *)
(*   exists       SERVICES_CATALOG_PATH.exists()              (105)        *)
(*   stat         mtime = SERVICES_CATALOG_PATH.stat().st_mtime (108)      *)
(*   check_cache  _services_cache is not None                 (109)        *)
(*   check_mtime  _services_mtime == mtime                    (109)        *)
(*   return_cached  return _services_cache                    (110)        *)
(*   read_json    data = _read_json(...) and its validation   (112-117)    *)
(*   set_cache    _services_cache = data                      (119)        *)
(*   set_mtime    _services_mtime = mtime; return data        (120-121)    *)

\* The contents the file is rewritten with while calls are running.
ConcurrentContents == {DocA, DocB, InvalidJson}

Thread(pc, mtime, data, ret) ==
    [pc |-> pc, mtime |-> mtime, data |-> data, ret |-> ret]

\* The thread's call is over with result `ret`.
Done(t, ret) ==
    threads' = [threads EXCEPT ![t] = Thread("done", NoMtime, None, ret)]

Goto(t, pc) == threads' = [threads EXCEPT ![t].pc = pc]

ThreadRaised(status, detail) ==
    [ok |-> FALSE, status |-> status, detail |-> detail, value |-> None]

ThreadReturned(value) ==
    [ok |-> TRUE, status |-> 200, detail |-> "", value |-> value]

InitConcurrent ==
    /\ \E c \in {DocA, DocB} :
        LET sv == LoadServicesCatalog(File(c, FirstMtime), Globals(None, NoMtime))
        IN  /\ svc_file = File(c, FirstMtime)
            /\ services_cache = sv.g.cache
            /\ services_mtime = sv.g.mtime
    /\ mm_file = File(MMGood, FirstMtime)
    /\ LET mm == LoadMakeModels(mm_file, Globals(None, NoMtime))
       IN  /\ make_models_cache = mm.g.cache
           /\ make_models_mtime = mm.g.mtime
    /\ fs_clock = FirstMtime + 1
    /\ phase = "serving"
    /\ reload_failed = FALSE
    /\ req = None
    /\ resp = None
    /\ threads = [t \in Threads |-> IdleThread]
    /\ VpicIdle

\* What the thread steps leave alone besides the globals of the cache.
ThreadFrame ==
    UNCHANGED << svc_file, mm_file, make_models_cache, make_models_mtime,
                 fs_clock, phase, reload_failed, req, resp, vpic >>

\* A request reaches a handler that calls load_services_catalog.
Begin(t) ==
    /\ threads[t].pc = "idle"
    /\ Goto(t, "exists")
    /\ ThreadFrame
    /\ UNCHANGED << services_cache, services_mtime >>

CheckExists(t) ==
    /\ threads[t].pc = "exists"
    /\ IF svc_file.exists
       THEN Goto(t, "stat")
       ELSE Done(t, ThreadRaised(500,
                        "Missing services_catalog.json at project root."))
    /\ ThreadFrame
    /\ UNCHANGED << services_cache, services_mtime >>

\* stat() of a file deleted since exists() raises FileNotFoundError, which
\* nothing catches: the framework answers 500.
Stat(t) ==
    /\ threads[t].pc = "stat"
    /\ IF svc_file.exists
       THEN threads' = [threads EXCEPT ![t].pc = "check_cache",
                                       ![t].mtime = svc_file.mtime]
       ELSE Done(t, ThreadRaised(500, "Internal Server Error"))
    /\ ThreadFrame
    /\ UNCHANGED << services_cache, services_mtime >>

CheckCache(t) ==
    /\ threads[t].pc = "check_cache"
    /\ Goto(t, IF services_cache # None THEN "check_mtime" ELSE "read_json")
    /\ ThreadFrame
    /\ UNCHANGED << services_cache, services_mtime >>

CheckMtime(t) ==
    /\ threads[t].pc = "check_mtime"
    /\ Goto(t, IF services_mtime = threads[t].mtime
               THEN "return_cached" ELSE "read_json")
    /\ ThreadFrame
    /\ UNCHANGED << services_cache, services_mtime >>

ReturnCached(t) ==
    /\ threads[t].pc = "return_cached"
    /\ Done(t, ThreadReturned(services_cache))
    /\ ThreadFrame
    /\ UNCHANGED << services_cache, services_mtime >>

ReadAndValidate(t) ==
    /\ threads[t].pc = "read_json"
    /\ LET r == ReadJson(svc_file) IN
       IF ~r.ok
       THEN Done(t, ThreadRaised(500, "Invalid JSON in services_catalog.json"))
       ELSE IF ~r.data.is_dict
       THEN Done(t, ThreadRaised(500,
                        "services_catalog.json must be a JSON object."))
       ELSE IF ~HasCategoriesList(r.data)
       THEN Done(t, ThreadRaised(500,
                  "services_catalog.json must include: { categories: [...] }"))
       ELSE threads' = [threads EXCEPT ![t].pc = "set_cache",
                                       ![t].data = r.data.obj]
    /\ ThreadFrame
    /\ UNCHANGED << services_cache, services_mtime >>

SetCache(t) ==
    /\ threads[t].pc = "set_cache"
    /\ services_cache' = threads[t].data
    /\ Goto(t, "set_mtime")
    /\ ThreadFrame
    /\ UNCHANGED services_mtime

SetMtime(t) ==
    /\ threads[t].pc = "set_mtime"
    /\ services_mtime' = threads[t].mtime
    /\ Done(t, ThreadReturned(threads[t].data))
    /\ ThreadFrame
    /\ UNCHANGED services_cache

\* The handler answers and the thread goes back to the pool.
Finish(t) ==
    /\ threads[t].pc = "done"
    /\ threads' = [threads EXCEPT ![t] = IdleThread]
    /\ ThreadFrame
    /\ UNCHANGED << services_cache, services_mtime >>

ConcurrentWrite(c) ==
    /\ fs_clock <= FirstMtime + MaxWrites
    /\ svc_file' = File(c, fs_clock)
    /\ fs_clock' = fs_clock + 1
    /\ UNCHANGED << services_cache, services_mtime, mm_file, make_models_cache,
                    make_models_mtime, phase, reload_failed, req, resp,
                    threads, vpic >>

ConcurrentDelete ==
    /\ fs_clock <= FirstMtime + MaxWrites
    /\ svc_file.exists
    /\ svc_file' = Missing
    /\ fs_clock' = fs_clock + 1
    /\ UNCHANGED << services_cache, services_mtime, mm_file, make_models_cache,
                    make_models_mtime, phase, reload_failed, req, resp,
                    threads, vpic >>

NextConcurrent ==
    \/ \E t \in Threads :
        \/ Begin(t)
        \/ CheckExists(t)
        \/ Stat(t)
        \/ CheckCache(t)
        \/ CheckMtime(t)
        \/ ReturnCached(t)
        \/ ReadAndValidate(t)
        \/ SetCache(t)
        \/ SetMtime(t)
        \/ Finish(t)
    \/ \E c \in ConcurrentContents : ConcurrentWrite(c)
    \/ ConcurrentDelete

SpecConcurrent == InitConcurrent /\ [][NextConcurrent]_vars

\* The threads that are rebuilding the cached document: each has read and
\* parsed the file and has not yet made the second of the two assignments.
Rebuilding == {t \in Threads : threads[t].pc \in {"set_cache", "set_mtime"}}

\* C3: at most one rebuild of the cached document is in progress at any
\* time, and a call that returns a document returns a whole parsed document.
C3_AtMostOneRebuild ==
    /\ Cardinality(Rebuilding) <= 1
    /\ \A t \in Threads :
          (threads[t].pc = "done" /\ threads[t].ret.ok) =>
              threads[t].ret.value \in {c.obj : c \in GoodServicesContents}

\* The part of C3 that the code keeps: what a call returns is a whole parsed
\* document, one the file held at some time.
C3_ReadersGetWholeDocuments ==
    \A t \in Threads :
        (threads[t].pc = "done" /\ threads[t].ret.ok) =>
            threads[t].ret.value \in {c.obj : c \in GoodServicesContents}

\* C16: under every interleaving of calls and file modifications the pair
\* of globals is coherent: when the recorded mtime is the file's current
\* mtime, the cached document is the one parsed from the file's current
\* content.
C16_PairCoherent ==
    (svc_file.exists /\ services_mtime = svc_file.mtime) =>
        /\ svc_file.content.json_ok
        /\ services_cache = svc_file.content.obj

\* The part of C16 that the code keeps: with one call running at a time
\* (Spec), the pair is coherent once the application serves.
C16_SequentialPairCoherent ==
    (phase = "serving" /\ svc_file.exists /\ services_mtime = svc_file.mtime) =>
        /\ svc_file.content.json_ok
        /\ services_cache = svc_file.content.obj

----------------------------------------------------------------------------
(* Calls of fetch_models_from_vpic.  The coroutines run on one event loop: *)
(* a call runs alone from one await to the next, and other calls run while *)
(* it awaits the response of its upstream request.                         *)

\* The arguments of the calls: `make` is None or [v |-> str].
FetchMakes ==
    {None, [v |-> Ford], [v |-> << " " >> \o FORD], [v |-> KIA]}

\* What the catalog calls and the file leave alone.
VpicFrame ==
    UNCHANGED << svc_file, services_cache, services_mtime, mm_file,
                 make_models_cache, make_models_mtime, fs_clock, phase,
                 reload_failed, req, resp, threads >>

\* No call has a result that is still to be answered: a call's result stays
\* in its record until FetchRespond, and nothing else runs in between.
NoneDone == \A c \in Coroutines : calls[c].pc # "done"

\* fetch_models_from_vpic up to its first await (548-565): an empty make
\* returns []; a cached list is returned; otherwise the first request is sent.
CallFetch(c, make) ==
    /\ calls[c].pc = "idle"
    /\ NoneDone
    /\ LET make_clean == Strip(OrEmpty(make))
           make_upper == Upper(make_clean)
           g == CacheGet(models_cache, make_upper, now)
           seen == IF make_upper \in DOMAIN fetched
                   THEN fetched[make_upper] ELSE None
       IN  IF make_clean = << >>
           THEN /\ calls' = [calls EXCEPT ![c] =
                       Call("done", make, << >>, 0, 0, None,
                            ThreadReturned([v |-> << >>]), now, None)]
                /\ UNCHANGED models_cache
           ELSE /\ models_cache' = g.cache
                /\ calls' = [calls EXCEPT ![c] =
                       IF g.value # None
                       THEN Call("done", make, make_upper, 0, 0, None,
                                 ThreadReturned(g.value), now, seen)
                       ELSE Call("await", make, make_upper, 1, 0, None, None,
                                 now, seen)]
    /\ UNCHANGED << now, fetched >>
    /\ VpicFrame

\* The awaited request ends (565-595).  On models it stores and returns them;
\* on an exception it sends the next request, or after the last iteration
\* returns the entry the dict holds for the make, or raises 502.
Attempt(c, out) ==
    /\ calls[c].pc = "await"
    /\ NoneDone
    /\ LET models == AttemptModels(out)
           key == calls[c].make_upper
       IN  IF models # None
           THEN /\ models_cache' = CacheSet(models_cache, key, models.v, now)
                /\ fetched' = Put(fetched, key, [at |-> now, models |-> models.v])
                /\ calls' = [calls EXCEPT ![c].pc = "done",
                                          ![c].out = out,
                                          ![c].ret = ThreadReturned(models)]
           ELSE /\ UNCHANGED << models_cache, fetched >>
                /\ calls' = [calls EXCEPT ![c] =
                       IF calls[c].requests < MaxAttempts
                       THEN [@ EXCEPT !.requests = @ + 1, !.failed = @ + 1,
                                      !.out = out]
                       ELSE IF key \in DOMAIN models_cache
                       THEN [@ EXCEPT !.pc = "done", !.failed = @ + 1,
                                      !.out = out,
                                      !.ret = ThreadReturned(
                                          [v |-> models_cache[key].models])]
                       ELSE [@ EXCEPT !.pc = "done", !.failed = @ + 1,
                                      !.out = out,
                                      !.ret = ThreadRaised(502,
                                          "NHTSA vPIC unavailable")]]
    /\ UNCHANGED now
    /\ VpicFrame

\* The handler answers; the coroutine is over.
FetchRespond(c) ==
    /\ calls[c].pc = "done"
    /\ calls' = [calls EXCEPT ![c] = IdleCall]
    /\ UNCHANGED << models_cache, now, fetched >>
    /\ VpicFrame

\* How many TTLs time.time() advances by.
MaxTtls == 1

\* Time passes (time.time() does not go back): a TTL, or the second that
\* follows a multiple of the TTL.
Tick(d) ==
    /\ NoneDone
    /\ IF d = 1
       THEN now % MODELS_TTL_SECONDS = 0
       ELSE now \div MODELS_TTL_SECONDS < MaxTtls
    /\ now' = now + d
    /\ UNCHANGED << models_cache, calls, fetched >>
    /\ VpicFrame

InitVpic ==
    /\ svc_file = Missing
    /\ mm_file = Missing
    /\ services_cache = None
    /\ services_mtime = NoMtime
    /\ make_models_cache = None
    /\ make_models_mtime = NoMtime
    /\ fs_clock = FirstMtime
    /\ phase = "serving"
    /\ reload_failed = FALSE
    /\ req = None
    /\ resp = None
    /\ threads = [t \in Threads |-> IdleThread]
    /\ VpicIdle

NextVpic ==
    \/ \E c \in Coroutines, make \in FetchMakes : CallFetch(c, make)
    \/ \E c \in Coroutines, out \in UpstreamOutcomes : Attempt(c, out)
    \/ \E c \in Coroutines : FetchRespond(c)
    \/ \E d \in {1, MODELS_TTL_SECONDS} : Tick(d)

SpecVpic == InitVpic /\ [][NextVpic]_vars

----------------------------------------------------------------------------
(* Claims about fetch_models_from_vpic (SpecVpic). *)

\* The calls that have ended and are about to be answered.
Ended == {c \in Coroutines : calls[c].pc = "done"}

\* C13: a call whose upstream attempts all failed returns the list fetched
\* earlier for its make, whether or not its TTL has expired; it raises 502
\* only when no list was ever fetched for the make.
C13_StaleListOnUpstreamFailure ==
    \A c \in Ended :
        calls[c].failed = MaxAttempts =>
            /\ calls[c].seen # None =>
                  /\ calls[c].ret.ok
                  /\ calls[c].ret.value.v = fetched[calls[c].make_upper].models
            /\ ~calls[c].ret.ok =>
                  /\ calls[c].ret.status = 502
                  /\ calls[c].make_upper \notin DOMAIN fetched

\* The part of C13 that the code keeps: after the failed attempts the call
\* returns the list the dict holds for the make at that time, and raises 502
\* when the dict holds none.
C13_FallbackReturnsEntryOfDict ==
    \A c \in Ended :
        calls[c].failed = MaxAttempts =>
            IF calls[c].make_upper \in DOMAIN models_cache
            THEN /\ calls[c].ret.ok
                 /\ calls[c].ret.value.v =
                       models_cache[calls[c].make_upper].models
            ELSE ~calls[c].ret.ok /\ calls[c].ret.status = 502

\* C14: a call that begins no later than 24 hours after the last list for
\* its make was stored returns that list and sends no upstream request; and
\* _cache_get returns no entry whose expiry is earlier than the current time,
\* but removes it and reports a miss.
C14_FreshEntryServedWithoutRequest ==
    /\ \A c \in Coroutines :
          (/\ calls[c].pc # "idle"
           /\ calls[c].seen # None
           /\ calls[c].began <= calls[c].seen.at + 24 * 60 * 60) =>
              /\ calls[c].pc = "done"
              /\ calls[c].requests = 0
              /\ calls[c].ret.ok
              /\ calls[c].ret.value.v = calls[c].seen.models
    /\ \A k \in DOMAIN models_cache :
          LET g == CacheGet(models_cache, k, now) IN
          /\ g.value # None => models_cache[k].expires >= now
          /\ models_cache[k].expires < now =>
                g.value = None /\ k \notin DOMAIN g.cache

\* C14's case: a list stored under FORD is returned, with no request sent, to
\* a call for "ford" that begins exactly 24 hours later.
C14_Witness ==
    \E c \in Ended :
        /\ calls[c].make = [v |-> Ford]
        /\ calls[c].seen # None
        /\ calls[c].seen.models # << >>
        /\ calls[c].began = calls[c].seen.at + 24 * 60 * 60
        /\ calls[c].requests = 0
        /\ calls[c].ret.value.v = calls[c].seen.models

\* The stripped non-empty names of the items of the body of an outcome.
NamesOf(out) ==
    LET results == IF out.data.is_dict
                   THEN Get(out.data.obj, "Results", << >>) ELSE << >>
    IN  {Strip(OrEmpty(Get(results[i], "Model_Name", None))) :
            i \in 1..Len(results)} \ {<< >>}

\* A list without two names equal up to case, in the order of the
\* upper-cased names.
SortedWithoutDuplicates(models) ==
    \A i, j \in 1..Len(models) :
        i < j => StrLess(Upper(models[i]), Upper(models[j]))

\* C15: a call sends at most two upstream requests.  It stops at the first
\* attempt that succeeds, stores that attempt's de-duplicated sorted list in
\* the cache and returns it; after two failed attempts it sends no further
\* request and ends with a cached list or with 502.
C15_AtMostTwoRequests ==
    \A c \in Coroutines :
        /\ calls[c].requests <= 2
        /\ calls[c].pc = "await" =>
              calls[c].requests >= 1 /\ calls[c].failed = calls[c].requests - 1
        /\ (calls[c].pc = "done" /\ calls[c].requests > 0) =>
              IF calls[c].failed < calls[c].requests
              THEN /\ calls[c].failed = calls[c].requests - 1
                   /\ calls[c].ret.ok
                   /\ SortedWithoutDuplicates(calls[c].ret.value.v)
                   /\ \A i \in 1..Len(calls[c].ret.value.v) :
                         calls[c].ret.value.v[i] \in NamesOf(calls[c].out)
                   /\ \A n \in NamesOf(calls[c].out) :
                         \E i \in 1..Len(calls[c].ret.value.v) :
                             Upper(calls[c].ret.value.v[i]) = Upper(n)
                   /\ calls[c].make_upper \in DOMAIN models_cache
                   /\ models_cache[calls[c].make_upper] =
                         [expires |-> now + 24 * 60 * 60,
                          models |-> calls[c].ret.value.v]
              ELSE /\ calls[c].requests = 2
                   /\ \/ /\ calls[c].ret.ok
                         /\ calls[c].make_upper \in DOMAIN models_cache
                         /\ calls[c].ret.value.v =
                               models_cache[calls[c].make_upper].models
                      \/ ~calls[c].ret.ok /\ calls[c].ret.status = 502

\* C15's case: the first attempt failed and the second returned names to
\* strip, to drop and to reorder; the call stored and returned two of them.
C15_Witness ==
    \E c \in Ended :
        /\ calls[c].requests = 2
        /\ calls[c].failed = 1
        /\ calls[c].out.data = JObject([Results |-> ResultsA])
        /\ calls[c].ret.value.v = << civic, F150 >>
        /\ models_cache[calls[c].make_upper].models = << civic, F150 >>

\* The event loop resumes a call when its awaited request has ended (the
\* client gives up after VPIC_TIMEOUT_S), and answers a call that has ended.
SpecVpicFair ==
    /\ SpecVpic
    /\ \A c \in Coroutines :
          /\ SF_vars(\E out \in UpstreamOutcomes : Attempt(c, out))
          /\ WF_vars(FetchRespond(c))

\* The termination part of C15: every call that awaits a request ends.
C15_CallsEnd ==
    \A c \in Coroutines : (calls[c].pc = "await") ~> (calls[c].pc = "done")

====
